---- MODULE Spec2Model ----
(***************************************************************************)
(* Personal expense control system with JSON / CSV persistence.            *)
(*                                                                         *)
(* The module models the two ledgers of the source file: the English       *)
(* Transaction / ExpenseTracker and the Spanish Movimiento / ControlGastos.*)
(* Texts are sequences of one-character strings, so that what the csv      *)
(* writer, the text-mode file read and the csv reader do to a text is      *)
(* computed character by character.  Python values are tagged records.     *)
(***************************************************************************)
EXTENDS Integers, Sequences, FiniteSets, TLC

VARIABLES
    transactions,   \* ExpenseTracker.transactions
    json_file,      \* content of the file load_json / save_json are given
    csv_file,       \* content of the file load_csv / save_csv are given
    last,           \* the last call on the ExpenseTracker and how it ended
    movimientos,    \* ControlGastos.movimientos
    archivo_json,   \* content of the file cargar_json / guardar_json are given
    archivo_csv,    \* content of the file cargar_csv / guardar_csv are given
    ultimo          \* the last call on the ControlGastos and how it ended

vars == <<transactions, json_file, csv_file, last,
          movimientos, archivo_json, archivo_csv, ultimo>>

english == <<transactions, json_file, csv_file, last>>
spanish == <<movimientos, archivo_json, archivo_csv, ultimo>>

(***************************************************************************)
(* Bounds                                                                  *)
(***************************************************************************)
\* Longest ledger add_transaction builds (the list itself is unbounded).
MaxTx == 2

(***************************************************************************)
(* Python values: int, float (nan apart), str, None.                       *)
(***************************************************************************)
PyInt(n)   == [t |-> "int",   n |-> n, s |-> <<>>]
PyFloat(n) == [t |-> "float", n |-> n, s |-> <<>>]
PyNaN      == [t |-> "nan",   n |-> 0, s |-> <<>>]
PyStr(s)   == [t |-> "str",   n |-> 0, s |-> s]
PyNone     == [t |-> "none",  n |-> 0, s |-> <<>>]

IsNumber(a) == a.t \in {"int", "float"}

\* a == b of Python: numbers by value (5 == 5.0), nan equal to nothing.
PyEq(a, b) ==
    \/ IsNumber(a) /\ IsNumber(b) /\ a.n = b.n
    \/ a.t = "str" /\ b.t = "str" /\ a.s = b.s
    \/ a.t = "none" /\ b.t = "none"

\* a + b and a - b of Python on numbers: nan absorbs, a float makes a float.
PyAdd(a, b) ==
    IF a.t = "nan" \/ b.t = "nan" THEN PyNaN
    ELSE IF a.t = "float" \/ b.t = "float" THEN PyFloat(a.n + b.n)
    ELSE PyInt(a.n + b.n)

PySub(a, b) ==
    IF a.t = "nan" \/ b.t = "nan" THEN PyNaN
    ELSE IF a.t = "float" \/ b.t = "float" THEN PyFloat(a.n - b.n)
    ELSE PyInt(a.n - b.n)

\* sum(xs) of Python: starts from the int 0 and adds from the left.
RECURSIVE PySumFrom(_, _, _)
PySumFrom(acc, xs, i) ==
    IF i > Len(xs) THEN acc ELSE PySumFrom(PyAdd(acc, xs[i]), xs, i + 1)

PySum(xs) == PySumFrom(PyInt(0), xs, 1)

(***************************************************************************)
(* Exceptions.  A call yields the exception it raised, or NoExc.           *)
(***************************************************************************)
NoExc == [type |-> "None", msg |-> ""]
ValueError(m) == [type |-> "ValueError", msg |-> m]
TypeError(m)  == [type |-> "TypeError", msg |-> m]
KeyError(m)   == [type |-> "KeyError", msg |-> m]

\* amount <= 0 of Python: [exc, val].
PyLeZero(a) ==
    IF IsNumber(a) THEN [exc |-> NoExc, val |-> a.n <= 0]
    ELSE IF a.t = "nan" THEN [exc |-> NoExc, val |-> FALSE]
    ELSE [exc |-> TypeError("'<=' not supported"), val |-> FALSE]

(***************************************************************************)
(* The texts of the source.                                                *)
(***************************************************************************)
S_income   == <<"i", "n", "c", "o", "m", "e">>
S_expense  == <<"e", "x", "p", "e", "n", "s", "e">>
S_type     == <<"t", "y", "p", "e">>
S_category == <<"c", "a", "t", "e", "g", "o", "r", "y">>
S_amount   == <<"a", "m", "o", "u", "n", "t">>
S_transaction_type ==
    <<"t", "r", "a", "n", "s", "a", "c", "t", "i", "o", "n", "_", "t", "y", "p", "e">>

S_ingreso   == <<"i", "n", "g", "r", "e", "s", "o">>
S_gasto     == <<"g", "a", "s", "t", "o">>
S_tipo      == <<"t", "i", "p", "o">>
S_categoria == <<"c", "a", "t", "e", "g", "o", "r", "i", "a">>
S_monto     == <<"m", "o", "n", "t", "o">>

(***************************************************************************)
(* Transaction                                                             *)
(***************************************************************************)
\* A Transaction object: its three attributes.
TransactionObj(transaction_type, category, amount) ==
    [transaction_type |-> transaction_type, category |-> category, amount |-> amount]

NoObj == TransactionObj(PyNone, PyNone, PyNone)

\* Transaction.__init__ with its two checks in the other order.
TransactionAmountFirst(transaction_type, category, amount) ==
    LET le == PyLeZero(amount) IN
    IF le.exc # NoExc THEN [exc |-> le.exc, obj |-> NoObj]
    ELSE IF le.val
    THEN [exc |-> ValueError("Amount must be greater than 0"), obj |-> NoObj]
    ELSE IF ~(PyEq(transaction_type, PyStr(S_income)) \/ PyEq(transaction_type, PyStr(S_expense)))
    THEN [exc |-> ValueError("Type must be 'income' or 'expense'"), obj |-> NoObj]
    ELSE [exc |-> NoExc, obj |-> TransactionObj(transaction_type, category, amount)]

\* Transaction.__init__: [exc, obj].
Transaction(transaction_type, category, amount) ==
    IF ~(PyEq(transaction_type, PyStr(S_income)) \/ PyEq(transaction_type, PyStr(S_expense)))
    THEN [exc |-> ValueError("Type must be 'income' or 'expense'"), obj |-> NoObj]
    ELSE LET le == PyLeZero(amount) IN
         IF le.exc # NoExc THEN [exc |-> le.exc, obj |-> NoObj]
         ELSE IF le.val
         THEN [exc |-> ValueError("Amount must be greater than 0"), obj |-> NoObj]
         ELSE [exc |-> NoExc, obj |-> TransactionObj(transaction_type, category, amount)]

\* Transaction.to_dict: a dict, as a function from key texts to values.
to_dict(self) ==
    (S_type :> self.transaction_type) @@ (S_category :> self.category)
        @@ (S_amount :> self.amount)

(***************************************************************************)
(* ExpenseTracker: add and the two queries                                 *)
(***************************************************************************)
\* ExpenseTracker.add_transaction on the list self: [exc, transactions].
add_transaction(self, transaction_type, category, amount) ==
    LET transaction == Transaction(transaction_type, category, amount) IN
    IF transaction.exc # NoExc
    THEN [exc |-> transaction.exc, transactions |-> self]
    ELSE [exc |-> NoExc, transactions |-> Append(self, transaction.obj)]

AmountsOfType(self, ty) ==
    LET sel == SelectSeq(self, LAMBDA t : PyEq(t.transaction_type, PyStr(ty)))
    IN  [i \in 1..Len(sel) |-> sel[i].amount]

\* calculate_balance adding the expenses instead of subtracting them.
calculate_balance_added(self) ==
    PyAdd(PySum(AmountsOfType(self, S_income)), PySum(AmountsOfType(self, S_expense)))

\* ExpenseTracker.calculate_balance.
calculate_balance(self) ==
    LET income   == PySum(AmountsOfType(self, S_income))
        expenses == PySum(AmountsOfType(self, S_expense))
    IN  PySub(income, expenses)

\* summary.get(key, 0) of Python.
DictGet(d, key, default) == IF key \in DOMAIN d THEN d[key] ELSE default

\* d[key] = value of Python.
DictSet(d, key, value) ==
    [k \in (DOMAIN d) \cup {key} |-> IF k = key THEN value ELSE d[k]]

EmptyDict == [k \in {} |-> PyNone]

\* The loop of summary_by_category from element i on.  Categories are
\* strings here, and two strings are the same key when they are equal.
RECURSIVE summary_loop(_, _, _)
summary_loop(summary, self, i) ==
    IF i > Len(self) THEN summary
    ELSE LET t == self[i] IN
         IF PyEq(t.transaction_type, PyStr(S_expense))
         THEN summary_loop(
                  DictSet(summary, t.category.s,
                          PyAdd(DictGet(summary, t.category.s, PyInt(0)), t.amount)),
                  self, i + 1)
         ELSE summary_loop(summary, self, i + 1)

\* summary_by_category counting the income entries too.
summary_by_category_all(self) ==
    LET RECURSIVE loop(_, _)
        loop(summary, i) ==
            IF i > Len(self) THEN summary
            ELSE loop(DictSet(summary, self[i].category.s,
                              PyAdd(DictGet(summary, self[i].category.s, PyInt(0)),
                                    self[i].amount)), i + 1)
    IN  loop(EmptyDict, 1)

\* ExpenseTracker.summary_by_category.
summary_by_category(self) == summary_loop(EmptyDict, self, 1)

(***************************************************************************)
(* Files.  A file is absent, or holds data: a JSON document (json.dump and *)
(* json.load carry a list of dicts with str keys and str / int / float     *)
(* values, nan included, over unchanged) or the characters of a CSV text.  *)
(***************************************************************************)
NotFound == [exists |-> FALSE, data |-> <<>>]
File(data) == [exists |-> TRUE, data |-> data]

\* The exception of the first element of a list comprehension that raises.
FirstExc(rs) ==
    LET bad == {i \in 1..Len(rs) : rs[i].exc # NoExc} IN
    IF bad = {} THEN NoExc
    ELSE rs[CHOOSE i \in bad : \A j \in bad : i <= j].exc

(***************************************************************************)
(* ExpenseTracker: JSON                                                    *)
(***************************************************************************)
\* ExpenseTracker.save_json: the file written.
save_json(self) == File([i \in 1..Len(self) |-> to_dict(self[i])])

\* Transaction(**item): the keys of item are bound to the parameters of
\* Transaction.__init__ by name.
TransactionKw(item) ==
    LET params == {S_transaction_type, S_category, S_amount} IN
    IF \E k \in DOMAIN item : k \notin params
    THEN [exc |-> TypeError("got an unexpected keyword argument"), obj |-> NoObj]
    ELSE IF \E p \in params : p \notin DOMAIN item
    THEN [exc |-> TypeError("missing required positional argument"), obj |-> NoObj]
    ELSE Transaction(item[S_transaction_type], item[S_category], item[S_amount])

\* load_json that appends what it read to the list it had.
load_json_merging(self, file) ==
    IF ~file.exists THEN [exc |-> NoExc, transactions |-> <<>>]
    ELSE LET data == file.data
             made == [i \in 1..Len(data) |-> TransactionKw(data[i])]
         IN  IF FirstExc(made) # NoExc
             THEN [exc |-> FirstExc(made), transactions |-> self]
             ELSE [exc |-> NoExc,
                   transactions |-> self \o [i \in 1..Len(made) |-> made[i].obj]]

\* ExpenseTracker.load_json on the list self: [exc, transactions].
load_json(self, file) ==
    IF ~file.exists THEN [exc |-> NoExc, transactions |-> <<>>]
    ELSE LET data == file.data
             made == [i \in 1..Len(data) |-> TransactionKw(data[i])]
         IN  IF FirstExc(made) # NoExc
             THEN [exc |-> FirstExc(made), transactions |-> self]
             ELSE [exc |-> NoExc,
                   transactions |-> [i \in 1..Len(made) |-> made[i].obj]]

(***************************************************************************)
(* The csv module and the file modes the source opens its files with.      *)
(***************************************************************************)
DigitChar == <<"0", "1", "2", "3", "4", "5", "6", "7", "8", "9">>

RECURSIVE Digits(_)
Digits(n) ==
    IF n < 10 THEN <<DigitChar[n + 1]>>
    ELSE Digits(n \div 10) \o <<DigitChar[(n % 10) + 1]>>

IntText(n) == IF n < 0 THEN <<"-">> \o Digits(-n) ELSE Digits(n)

\* What csv.writer writes for a value: a str as it is, None as the empty
\* text, any other value through str().
CsvStr(v) ==
    CASE v.t = "str"   -> v.s
      [] v.t = "none"  -> <<>>
      [] v.t = "int"   -> IntText(v.n)
      [] v.t = "float" -> IntText(v.n) \o <<".", "0">>
      [] v.t = "nan"   -> <<"n", "a", "n">>

\* QUOTE_MINIMAL: a field is quoted when it holds the delimiter, the quote
\* character or a character of the line terminator.
NeedsQuote(field) ==
    \E i \in 1..Len(field) : field[i] \in {",", "\"", "\r", "\n"}

RECURSIVE DoubleQuotes(_)
DoubleQuotes(field) ==
    IF field = <<>> THEN <<>>
    ELSE (IF Head(field) = "\"" THEN <<"\"", "\"">> ELSE <<Head(field)>>)
         \o DoubleQuotes(Tail(field))

CsvField(field) ==
    IF NeedsQuote(field) THEN <<"\"">> \o DoubleQuotes(field) \o <<"\"">>
    ELSE field

RECURSIVE JoinFields(_)
JoinFields(fields) ==
    IF fields = <<>> THEN <<>>
    ELSE IF Len(fields) = 1 THEN CsvField(fields[1])
    ELSE CsvField(fields[1]) \o <<",">> \o JoinFields(Tail(fields))

\* csv.writer.writerow: the fields, delimited, and the line terminator.
CsvRow(fields) == JoinFields(fields) \o <<"\r", "\n">>

\* DictWriter.writerow: the values of rowdict in the order of fieldnames.
DictWriterRow(fieldnames, rowdict) ==
    CsvRow([i \in 1..Len(fieldnames) |-> CsvStr(rowdict[fieldnames[i]])])

RECURSIVE Concat(_)
Concat(texts) == IF texts = <<>> THEN <<>> ELSE Head(texts) \o Concat(Tail(texts))

\* open(filename, "r"): universal newlines, "\r\n" and "\r" are read as "\n".
RECURSIVE UniversalNewlines(_)
UniversalNewlines(data) ==
    IF data = <<>> THEN <<>>
    ELSE IF Head(data) = "\r"
    THEN <<"\n">> \o UniversalNewlines(
             IF Len(data) >= 2 /\ data[2] = "\n" THEN Tail(Tail(data)) ELSE Tail(data))
    ELSE <<Head(data)>> \o UniversalNewlines(Tail(data))

\* The lines a text file iterates over: each ends after its "\n".
RECURSIVE LinesFrom(_, _, _)
LinesFrom(text, start, i) ==
    IF i > Len(text)
    THEN IF start > Len(text) THEN <<>> ELSE <<SubSeq(text, start, Len(text))>>
    ELSE IF text[i] = "\n"
    THEN <<SubSeq(text, start, i)>> \o LinesFrom(text, i + 1, i + 1)
    ELSE LinesFrom(text, start, i + 1)

Lines(text) == LinesFrom(text, 1, 1)

\* The csv reader: its state, the field and the record it is building.
EOL == "EOL"
ReaderStart == [state |-> "START_RECORD", field |-> <<>>, row |-> <<>>]

parse_save_field(st) == [st EXCEPT !.row = Append(st.row, st.field), !.field = <<>>]
parse_add_char(st, c) == [st EXCEPT !.field = Append(st.field, c)]

EndOfField(st, c) ==
    [parse_save_field(st) EXCEPT
        !.state = IF c = EOL THEN "START_RECORD" ELSE "EAT_CRNL"]

StartField(st, c) ==
    IF c \in {"\n", "\r", EOL} THEN EndOfField(st, c)
    ELSE IF c = "\"" THEN [st EXCEPT !.state = "IN_QUOTED_FIELD"]
    ELSE IF c = "," THEN [parse_save_field(st) EXCEPT !.state = "START_FIELD"]
    ELSE [parse_add_char(st, c) EXCEPT !.state = "IN_FIELD"]

\* parse_process_char of the reader (excel dialect, not strict).
parse_process_char(st, c) ==
    CASE st.state = "START_RECORD" ->
            IF c = EOL THEN st
            ELSE IF c \in {"\n", "\r"} THEN [st EXCEPT !.state = "EAT_CRNL"]
            ELSE StartField(st, c)
      [] st.state = "START_FIELD" -> StartField(st, c)
      [] st.state = "IN_FIELD" ->
            IF c \in {"\n", "\r", EOL} THEN EndOfField(st, c)
            ELSE IF c = "," THEN [parse_save_field(st) EXCEPT !.state = "START_FIELD"]
            ELSE parse_add_char(st, c)
      [] st.state = "IN_QUOTED_FIELD" ->
            IF c = EOL THEN st
            ELSE IF c = "\"" THEN [st EXCEPT !.state = "QUOTE_IN_QUOTED_FIELD"]
            ELSE parse_add_char(st, c)
      [] st.state = "QUOTE_IN_QUOTED_FIELD" ->
            IF c = "\"" THEN [parse_add_char(st, c) EXCEPT !.state = "IN_QUOTED_FIELD"]
            ELSE IF c = "," THEN [parse_save_field(st) EXCEPT !.state = "START_FIELD"]
            ELSE IF c \in {"\n", "\r", EOL} THEN EndOfField(st, c)
            ELSE [parse_add_char(st, c) EXCEPT !.state = "IN_FIELD"]
      [] st.state = "EAT_CRNL" ->
            IF c = EOL THEN [st EXCEPT !.state = "START_RECORD"] ELSE st

RECURSIVE ProcessLine(_, _, _)
ProcessLine(st, line, i) ==
    IF i > Len(line) THEN parse_process_char(st, EOL)
    ELSE ProcessLine(parse_process_char(st, line[i]), line, i + 1)

\* The records the reader yields: a record ends with the line that leaves
\* the reader in START_RECORD; a quoted field goes on over the line's end.
RECURSIVE ReadRecords(_, _, _)
ReadRecords(lines, k, st) ==
    IF k > Len(lines)
    THEN IF st.field # <<>> \/ st.state = "IN_QUOTED_FIELD"
         THEN <<parse_save_field(st).row>> ELSE <<>>
    ELSE LET st1 == ProcessLine(st, lines[k], 1) IN
         IF st1.state = "START_RECORD"
         THEN <<st1.row>> \o ReadRecords(lines, k + 1, ReaderStart)
         ELSE ReadRecords(lines, k + 1, st1)

CsvReader(text) == ReadRecords(Lines(text), 1, ReaderStart)

\* One row of a DictReader: dict(zip(fieldnames, row)), a missing value None.
RowDict(fieldnames, row) ==
    [k \in {fieldnames[i] : i \in 1..Len(fieldnames)} |->
        LET i == CHOOSE i \in 1..Len(fieldnames) :
                     /\ fieldnames[i] = k
                     /\ \A j \in 1..Len(fieldnames) : fieldnames[j] = k => j <= i
        IN  IF i <= Len(row) THEN PyStr(row[i]) ELSE PyNone]

\* csv.DictReader: the first record names the fields, empty records are skipped.
DictReader(text) ==
    LET records == CsvReader(text) IN
    IF records = <<>> THEN <<>>
    ELSE LET rows == SelectSeq(Tail(records), LAMBDA r : r # <<>>)
         IN  [i \in 1..Len(rows) |-> RowDict(records[1], rows[i])]

IsDigit(c) == \E d \in 1..10 : DigitChar[d] = c

RECURSIVE DigitsValue(_)
DigitsValue(ds) ==
    IF ds = <<>> THEN 0
    ELSE 10 * DigitsValue(SubSeq(ds, 1, Len(ds) - 1))
         + (CHOOSE d \in 0..9 : DigitChar[d + 1] = ds[Len(ds)])

\* float(x) of Python, on the texts of this model: nan, and decimal numbers
\* with an optional sign and an optional fraction of zeros.  [exc, val].
float_(x) ==
    IF x.t = "none"
    THEN [exc |-> TypeError("float() argument must be a string or a real number"),
          val |-> PyNone]
    ELSE IF x.t # "str" THEN [exc |-> NoExc, val |-> x]
    ELSE LET s    == x.s
             neg  == s # <<>> /\ Head(s) = "-"
             body == IF neg THEN Tail(s) ELSE s
             dot  == {i \in 1..Len(body) : body[i] = "."}
             ip   == IF dot = {} THEN body
                     ELSE SubSeq(body, 1, (CHOOSE i \in dot : \A j \in dot : i <= j) - 1)
             fp   == IF dot = {} THEN <<>>
                     ELSE SubSeq(body, (CHOOSE i \in dot : \A j \in dot : i <= j) + 1,
                                 Len(body))
         IN  IF body = <<"n", "a", "n">> THEN [exc |-> NoExc, val |-> PyNaN]
             ELSE IF /\ ip # <<>>
                     /\ \A i \in 1..Len(ip) : IsDigit(ip[i])
                     /\ \A i \in 1..Len(fp) : fp[i] = "0"
             THEN [exc |-> NoExc,
                   val |-> PyFloat(IF neg THEN -DigitsValue(ip) ELSE DigitsValue(ip))]
             ELSE [exc |-> ValueError("could not convert string to float"),
                   val |-> PyNone]

(***************************************************************************)
(* ExpenseTracker: CSV                                                     *)
(***************************************************************************)
\* ExpenseTracker.save_csv: the file written (opened with newline="").
save_csv(self) ==
    LET fieldnames == <<S_type, S_category, S_amount>> IN
    File(CsvRow(fieldnames)
         \o Concat([i \in 1..Len(self) |-> DictWriterRow(fieldnames, to_dict(self[i]))]))

\* Transaction(row["type"], row["category"], float(row["amount"])).
TransactionOfRow(row) ==
    IF S_type \notin DOMAIN row THEN [exc |-> KeyError("type"), obj |-> NoObj]
    ELSE IF S_category \notin DOMAIN row THEN [exc |-> KeyError("category"), obj |-> NoObj]
    ELSE IF S_amount \notin DOMAIN row THEN [exc |-> KeyError("amount"), obj |-> NoObj]
    ELSE LET amount == float_(row[S_amount]) IN
         IF amount.exc # NoExc THEN [exc |-> amount.exc, obj |-> NoObj]
         ELSE Transaction(row[S_type], row[S_category], amount.val)

\* The text load_csv reads its file as: opened in mode "r" with no newline
\* argument, so with the universal newlines translation.
load_csv_text(file) == UniversalNewlines(file.data)

\* load_csv emptying the list before it reads the file.
load_csv_resetting(self, file) ==
    IF ~file.exists THEN [exc |-> NoExc, transactions |-> <<>>]
    ELSE LET rows == DictReader(load_csv_text(file))
             made == [i \in 1..Len(rows) |-> TransactionOfRow(rows[i])]
         IN  IF FirstExc(made) # NoExc
             THEN [exc |-> FirstExc(made), transactions |-> <<>>]
             ELSE [exc |-> NoExc,
                   transactions |-> [i \in 1..Len(made) |-> made[i].obj]]

\* ExpenseTracker.load_csv on the list self: [exc, transactions].
load_csv(self, file) ==
    IF ~file.exists THEN [exc |-> NoExc, transactions |-> <<>>]
    ELSE LET rows == DictReader(load_csv_text(file))
             made == [i \in 1..Len(rows) |-> TransactionOfRow(rows[i])]
         IN  IF FirstExc(made) # NoExc
             THEN [exc |-> FirstExc(made), transactions |-> self]
             ELSE [exc |-> NoExc,
                   transactions |-> [i \in 1..Len(made) |-> made[i].obj]]

(***************************************************************************)
(* Movimiento / ControlGastos                                              *)
(***************************************************************************)
MovimientoObj(tipo, categoria, monto) ==
    [tipo |-> tipo, categoria |-> categoria, monto |-> monto]

NoMovimiento == MovimientoObj(PyNone, PyNone, PyNone)

\* Movimiento.__init__: [exc, obj].
Movimiento(tipo, categoria, monto) ==
    IF ~(PyEq(tipo, PyStr(S_ingreso)) \/ PyEq(tipo, PyStr(S_gasto)))
    THEN [exc |-> ValueError("El tipo debe ser 'ingreso' o 'gasto'"), obj |-> NoMovimiento]
    ELSE LET le == PyLeZero(monto) IN
         IF le.exc # NoExc THEN [exc |-> le.exc, obj |-> NoMovimiento]
         ELSE IF le.val
         THEN [exc |-> ValueError("El monto debe ser mayor a 0"), obj |-> NoMovimiento]
         ELSE [exc |-> NoExc, obj |-> MovimientoObj(tipo, categoria, monto)]

\* Movimiento.to_dict.
Movimiento_to_dict(self) ==
    (S_tipo :> self.tipo) @@ (S_categoria :> self.categoria) @@ (S_monto :> self.monto)

\* ControlGastos.agregar_movimiento: [exc, movimientos].
agregar_movimiento(self, tipo, categoria, monto) ==
    LET movimiento == Movimiento(tipo, categoria, monto) IN
    IF movimiento.exc # NoExc
    THEN [exc |-> movimiento.exc, movimientos |-> self]
    ELSE [exc |-> NoExc, movimientos |-> Append(self, movimiento.obj)]

MontosDeTipo(self, tipo) ==
    LET sel == SelectSeq(self, LAMBDA m : PyEq(m.tipo, PyStr(tipo)))
    IN  [i \in 1..Len(sel) |-> sel[i].monto]

\* ControlGastos.calcular_saldo.
calcular_saldo(self) ==
    LET ingresos == PySum(MontosDeTipo(self, S_ingreso))
        gastos   == PySum(MontosDeTipo(self, S_gasto))
    IN  PySub(ingresos, gastos)

RECURSIVE resumen_loop(_, _, _)
resumen_loop(resumen, self, i) ==
    IF i > Len(self) THEN resumen
    ELSE LET m == self[i] IN
         IF PyEq(m.tipo, PyStr(S_gasto))
         THEN resumen_loop(
                  DictSet(resumen, m.categoria.s,
                          PyAdd(DictGet(resumen, m.categoria.s, PyInt(0)), m.monto)),
                  self, i + 1)
         ELSE resumen_loop(resumen, self, i + 1)

\* ControlGastos.resumen_por_categoria.
resumen_por_categoria(self) == resumen_loop(EmptyDict, self, 1)

\* ControlGastos.guardar_json: the file written.
guardar_json(self) == File([i \in 1..Len(self) |-> Movimiento_to_dict(self[i])])

\* Movimiento(**item).
MovimientoKw(item) ==
    LET params == {S_tipo, S_categoria, S_monto} IN
    IF \E k \in DOMAIN item : k \notin params
    THEN [exc |-> TypeError("got an unexpected keyword argument"), obj |-> NoMovimiento]
    ELSE IF \E p \in params : p \notin DOMAIN item
    THEN [exc |-> TypeError("missing required positional argument"), obj |-> NoMovimiento]
    ELSE Movimiento(item[S_tipo], item[S_categoria], item[S_monto])

\* ControlGastos.cargar_json: [exc, movimientos].
cargar_json(self, archivo) ==
    IF ~archivo.exists THEN [exc |-> NoExc, movimientos |-> <<>>]
    ELSE LET data == archivo.data
             made == [i \in 1..Len(data) |-> MovimientoKw(data[i])]
         IN  IF FirstExc(made) # NoExc
             THEN [exc |-> FirstExc(made), movimientos |-> self]
             ELSE [exc |-> NoExc, movimientos |-> [i \in 1..Len(made) |-> made[i].obj]]

\* ControlGastos.guardar_csv: the file written (opened with newline="").
guardar_csv(self) ==
    LET fieldnames == <<S_tipo, S_categoria, S_monto>> IN
    File(CsvRow(fieldnames)
         \o Concat([i \in 1..Len(self) |->
                       DictWriterRow(fieldnames, Movimiento_to_dict(self[i]))]))

\* Movimiento(row["tipo"], row["categoria"], float(row["monto"])).
MovimientoOfRow(row) ==
    IF S_tipo \notin DOMAIN row THEN [exc |-> KeyError("tipo"), obj |-> NoMovimiento]
    ELSE IF S_categoria \notin DOMAIN row
    THEN [exc |-> KeyError("categoria"), obj |-> NoMovimiento]
    ELSE IF S_monto \notin DOMAIN row THEN [exc |-> KeyError("monto"), obj |-> NoMovimiento]
    ELSE LET monto == float_(row[S_monto]) IN
         IF monto.exc # NoExc THEN [exc |-> monto.exc, obj |-> NoMovimiento]
         ELSE Movimiento(row[S_tipo], row[S_categoria], monto.val)

\* ControlGastos.cargar_csv: [exc, movimientos].  The file is opened in mode
\* "r" with no newline argument, as in load_csv.
cargar_csv(self, archivo) ==
    IF ~archivo.exists THEN [exc |-> NoExc, movimientos |-> <<>>]
    ELSE LET rows == DictReader(UniversalNewlines(archivo.data))
             made == [i \in 1..Len(rows) |-> MovimientoOfRow(rows[i])]
         IN  IF FirstExc(made) # NoExc
             THEN [exc |-> FirstExc(made), movimientos |-> self]
             ELSE [exc |-> NoExc, movimientos |-> [i \in 1..Len(made) |-> made[i].obj]]

(***************************************************************************)
(* The calls.  last / ultimo hold the call just made: its name, its        *)
(* arguments, the exception it raised (NoExc when it returned), the value  *)
(* it returned and, for a load, the file it was given.                     *)
(***************************************************************************)
Call(op, args, exc, value, file) ==
    [op |-> op, args |-> args, exc |-> exc, value |-> value, file |-> file]

EnAdd(k, c, a) ==
    LET r == add_transaction(transactions, PyStr(k), PyStr(c), a) IN
    /\ Len(r.transactions) <= MaxTx
    /\ transactions' = r.transactions
    /\ last' = Call("add_transaction", <<PyStr(k), PyStr(c), a>>, r.exc, PyNone, NotFound)
    /\ UNCHANGED <<json_file, csv_file>>

EnBalance ==
    /\ last' = Call("calculate_balance", <<>>, NoExc, calculate_balance(transactions), NotFound)
    /\ UNCHANGED <<transactions, json_file, csv_file>>

EnSummary ==
    /\ last' = Call("summary_by_category", <<>>, NoExc,
                    summary_by_category(transactions), NotFound)
    /\ UNCHANGED <<transactions, json_file, csv_file>>

EnSaveJson ==
    /\ json_file' = save_json(transactions)
    /\ last' = Call("save_json", <<>>, NoExc, PyNone, NotFound)
    /\ UNCHANGED <<transactions, csv_file>>

EnLoadJson(file) ==
    LET r == load_json(transactions, file) IN
    /\ transactions' = r.transactions
    /\ last' = Call("load_json", <<>>, r.exc, PyNone, file)
    /\ UNCHANGED <<json_file, csv_file>>

EnSaveCsv ==
    /\ csv_file' = save_csv(transactions)
    /\ last' = Call("save_csv", <<>>, NoExc, PyNone, NotFound)
    /\ UNCHANGED <<transactions, json_file>>

EnLoadCsv(file) ==
    LET r == load_csv(transactions, file) IN
    /\ transactions' = r.transactions
    /\ last' = Call("load_csv", <<>>, r.exc, PyNone, file)
    /\ UNCHANGED <<json_file, csv_file>>

EsAgregar(k, c, a) ==
    LET r == agregar_movimiento(movimientos, PyStr(k), PyStr(c), a) IN
    /\ Len(r.movimientos) <= MaxTx
    /\ movimientos' = r.movimientos
    /\ ultimo' = Call("agregar_movimiento", <<PyStr(k), PyStr(c), a>>, r.exc, PyNone, NotFound)
    /\ UNCHANGED <<archivo_json, archivo_csv>>

EsSaldo ==
    /\ ultimo' = Call("calcular_saldo", <<>>, NoExc, calcular_saldo(movimientos), NotFound)
    /\ UNCHANGED <<movimientos, archivo_json, archivo_csv>>

EsResumen ==
    /\ ultimo' = Call("resumen_por_categoria", <<>>, NoExc,
                      resumen_por_categoria(movimientos), NotFound)
    /\ UNCHANGED <<movimientos, archivo_json, archivo_csv>>

EsGuardarJson ==
    /\ archivo_json' = guardar_json(movimientos)
    /\ ultimo' = Call("guardar_json", <<>>, NoExc, PyNone, NotFound)
    /\ UNCHANGED <<movimientos, archivo_csv>>

EsCargarJson(archivo) ==
    LET r == cargar_json(movimientos, archivo) IN
    /\ movimientos' = r.movimientos
    /\ ultimo' = Call("cargar_json", <<>>, r.exc, PyNone, archivo)
    /\ UNCHANGED <<archivo_json, archivo_csv>>

EsGuardarCsv ==
    /\ archivo_csv' = guardar_csv(movimientos)
    /\ ultimo' = Call("guardar_csv", <<>>, NoExc, PyNone, NotFound)
    /\ UNCHANGED <<movimientos, archivo_json>>

EsCargarCsv(archivo) ==
    LET r == cargar_csv(movimientos, archivo) IN
    /\ movimientos' = r.movimientos
    /\ ultimo' = Call("cargar_csv", <<>>, r.exc, PyNone, archivo)
    /\ UNCHANGED <<archivo_json, archivo_csv>>

\* The state after ExpenseTracker() and ControlGastos(), no file written yet.
Init ==
    /\ transactions = <<>>
    /\ json_file = NotFound
    /\ csv_file = NotFound
    /\ last = Call("__init__", <<>>, NoExc, PyNone, NotFound)
    /\ movimientos = <<>>
    /\ archivo_json = NotFound
    /\ archivo_csv = NotFound
    /\ ultimo = Call("__init__", <<>>, NoExc, PyNone, NotFound)

(***************************************************************************)
(* The inputs of the calls.                                                *)
(***************************************************************************)
S_other == <<"x">>
S_food  == <<"f", "o", "o", "d">>
S_rent  == <<"r", "e", "n", "t">>

Kinds      == {S_income, S_expense, S_other}
Categories == {S_food}
Amounts    == {PyInt(-1), PyInt(0), PyInt(1), PyNaN}

\* The files a load may be given: absent, empty, or with one or two records.
\* A record is valid or invalid in one of the ways a record can be; a file
\* of two records starts with a valid one.
JsonItem(key, k, c, a) == (key :> PyStr(k)) @@ (S_category :> PyStr(c)) @@ (S_amount :> a)

JsonValid == JsonItem(S_transaction_type, S_income, S_food, PyInt(1))

JsonItems ==
    { JsonValid,
      JsonItem(S_transaction_type, S_expense, S_rent, PyFloat(2)),
      JsonItem(S_transaction_type, S_other, S_food, PyInt(1)),
      JsonItem(S_transaction_type, S_income, S_food, PyInt(0)),
      JsonItem(S_transaction_type, S_expense, S_food, PyNaN),
      JsonItem(S_transaction_type, S_expense, S_rent, PyStr(<<"5">>)),
      JsonItem(S_type, S_income, S_food, PyInt(1)) }

JsonSources ==
    {NotFound} \cup {File(<<>>)} \cup {File(<<a>>) : a \in JsonItems}
        \cup {File(<<JsonValid, a>>) : a \in JsonItems}

CsvValid == <<S_income, S_food, <<"1">> >>

CsvRecords ==
    { CsvValid,
      <<S_expense, S_rent, <<"2", ".", "0">> >>,
      <<S_other, S_food, <<"1">> >>,
      <<S_income, S_food, <<"0">> >>,
      <<S_expense, S_rent, <<"-", "1">> >>,
      <<S_expense, S_food, <<"n", "a", "n">> >>,
      <<S_income, S_rent, <<"a", "b", "c">> >>,
      <<S_income, S_food>> }

CsvHeader == CsvRow(<<S_type, S_category, S_amount>>)

CsvSources ==
    {NotFound} \cup {File(<<>>)} \cup {File(CsvHeader)}
        \cup {File(CsvRow(<<S_type, S_category>>) \o CsvRow(<<S_income, S_food>>))}
        \cup {File(CsvHeader \o CsvRow(a)) : a \in CsvRecords}
        \cup {File(CsvHeader \o CsvRow(CsvValid) \o CsvRow(a)) : a \in CsvRecords}

(***************************************************************************)
(* Spec: a ledger that is added to and loaded from files of any content.   *)
(***************************************************************************)
AddTransaction(k, c, a) == EnAdd(k, c, a) /\ UNCHANGED spanish
LoadJson(file) == EnLoadJson(file) /\ UNCHANGED spanish
LoadCsv(file) == EnLoadCsv(file) /\ UNCHANGED spanish

Next ==
    \/ \E k \in Kinds, c \in Categories, a \in Amounts : AddTransaction(k, c, a)
    \/ \E file \in JsonSources : LoadJson(file)
    \/ \E file \in CsvSources : LoadCsv(file)

Spec == Init /\ [][Next]_vars

(***************************************************************************)
(* SpecQuery: a ledger that is added to and queried.                       *)
(***************************************************************************)
S_Food == <<"F", "o", "o", "d">>

QueryKinds      == {S_income, S_expense}
QueryCategories == {S_food, S_Food}
QueryAmounts    == {PyInt(1), PyInt(2), PyInt(3), PyNaN}

CalculateBalance == EnBalance /\ UNCHANGED spanish
SummaryByCategory == EnSummary /\ UNCHANGED spanish

NextQuery ==
    \/ \E k \in QueryKinds, c \in QueryCategories, a \in QueryAmounts :
           AddTransaction(k, c, a)
    \/ CalculateBalance
    \/ SummaryByCategory

SpecQuery == Init /\ [][NextQuery]_vars

(***************************************************************************)
(* SpecJson: a ledger that is added to, saved to a JSON file and loaded    *)
(* from that file.                                                         *)
(***************************************************************************)
SaveJson == EnSaveJson /\ UNCHANGED spanish

NextJson ==
    \/ \E k \in Kinds, c \in Categories, a \in Amounts : AddTransaction(k, c, a)
    \/ SaveJson
    \/ LoadJson(json_file)

SpecJson == Init /\ [][NextJson]_vars

(***************************************************************************)
(* SpecCsv: a ledger that is added to, saved to a CSV file and loaded from *)
(* that file.  The categories hold the characters the csv format treats    *)
(* specially: the delimiter, the quote, the line feed, the carriage return.*)
(***************************************************************************)
CsvKinds      == {S_income, S_expense}
CsvCategories == {S_food, <<"a", ",", "\"", "\n">>, <<"a", "\r", "b">>}
CsvAmounts    == {PyInt(12)}

SaveCsv == EnSaveCsv /\ UNCHANGED spanish

NextCsv ==
    \/ \E k \in CsvKinds, c \in CsvCategories, a \in CsvAmounts : AddTransaction(k, c, a)
    \/ SaveCsv
    \/ LoadCsv(csv_file)

SpecCsv == Init /\ [][NextCsv]_vars

(***************************************************************************)
(* SpecPair: the same calls made on an ExpenseTracker and on a             *)
(* ControlGastos, the kinds renamed income -> ingreso, expense -> gasto.   *)
(***************************************************************************)
RenameKind(k) ==
    IF k = S_income THEN S_ingreso ELSE IF k = S_expense THEN S_gasto ELSE k

PairKinds   == {S_expense, S_other}
PairAmounts == {PyInt(0), PyInt(1)}

PairAdd(k, c, a) == EnAdd(k, c, a) /\ EsAgregar(RenameKind(k), c, a)
PairBalance == EnBalance /\ EsSaldo
PairSummary == EnSummary /\ EsResumen
PairSaveJson == EnSaveJson /\ EsGuardarJson
PairLoadJson == EnLoadJson(json_file) /\ EsCargarJson(archivo_json)
PairSaveCsv == EnSaveCsv /\ EsGuardarCsv
PairLoadCsv == EnLoadCsv(csv_file) /\ EsCargarCsv(archivo_csv)

NextPair ==
    \/ \E k \in PairKinds, c \in Categories, a \in PairAmounts : PairAdd(k, c, a)
    \/ PairBalance
    \/ PairSummary
    \/ PairSaveJson
    \/ PairLoadJson
    \/ PairSaveCsv
    \/ PairLoadCsv

SpecPair == Init /\ [][NextPair]_vars

(***************************************************************************)
(* Properties of Spec                                                      *)
(***************************************************************************)
\* kind is one of the two recognized tokens.
Recognized(k) == k = PyStr(S_income) \/ k = PyStr(S_expense)

\* amount > 0 and amount <= 0, as numbers: nan is neither.
GreaterThanZero(a) == IsNumber(a) /\ a.n > 0
NotGreaterThanZero(a) == IsNumber(a) /\ a.n <= 0

\* C3: add_transaction with a recognized kind and amount > 0 appends exactly
\* one transaction carrying (kind, category, amount) at the end and leaves
\* the earlier elements as they were; otherwise it fails with a validation
\* error and the sequence is the old sequence.
C3_AddPostcondition ==
    [][last'.op = "add_transaction" =>
          LET k == last'.args[1]
              c == last'.args[2]
              a == last'.args[3]
          IN  IF Recognized(k) /\ GreaterThanZero(a)
              THEN /\ last'.exc = NoExc
                   /\ transactions' = Append(transactions, TransactionObj(k, c, a))
              ELSE /\ last'.exc.type = "ValueError"
                   /\ transactions' = transactions]_vars

\* C4: every element of the ledger has a kind in {income, expense} and an
\* amount strictly greater than 0.
C4_LedgerInvariant ==
    \A i \in 1..Len(transactions) :
        /\ Recognized(transactions[i].transaction_type)
        /\ GreaterThanZero(transactions[i].amount)

\* The records of a source, as the constructor is given them.
DecodedJson(file) ==
    [i \in 1..Len(file.data) |->
        TransactionObj(file.data[i][S_transaction_type], file.data[i][S_category],
                       file.data[i][S_amount])]

DecodedCsv(file) ==
    LET rows == DictReader(UniversalNewlines(file.data)) IN
    [i \in 1..Len(rows) |->
        TransactionObj(rows[i][S_type], rows[i][S_category],
                       float_(rows[i][S_amount]).val)]

\* C5: whenever load_json or load_csv returns normally the ledger holds
\* exactly the records decoded from the source, in file order, and none of
\* its prior elements; when the source does not exist the call returns
\* normally and the ledger is empty.
C5_LoadReplaces ==
    /\ last.op \in {"load_json", "load_csv"} /\ ~last.file.exists
           => last.exc = NoExc /\ transactions = <<>>
    /\ last.op = "load_json" /\ last.file.exists /\ last.exc = NoExc
           => transactions = DecodedJson(last.file)
    /\ last.op = "load_csv" /\ last.file.exists /\ last.exc = NoExc
           => transactions = DecodedCsv(last.file)

\* C5 witness: a load of a source of two records has returned normally.
C5_Witness ==
    /\ last.op = "load_json"
    /\ last.exc = NoExc
    /\ last.file.exists
    /\ Len(last.file.data) = 2
    /\ Len(transactions) = 2

\* C8 as stated: for every amount <= 0 and every kind, construction fails
\* with 'Amount must be greater than 0' and the ledger is unaffected.
C8_AmountErrorForEveryKind ==
    [][last'.op = "add_transaction" /\ NotGreaterThanZero(last'.args[3]) =>
          /\ last'.exc = ValueError("Amount must be greater than 0")
          /\ transactions' = transactions]_vars

\* C8 amended: for every amount <= 0 construction fails with a ValueError,
\* 'Amount must be greater than 0' when the kind is recognized and the kind
\* error otherwise (the kind is checked first), and the ledger is unaffected.
C8_AmountErrorAfterKind ==
    [][last'.op = "add_transaction" /\ NotGreaterThanZero(last'.args[3]) =>
          /\ last'.exc = IF Recognized(last'.args[1])
                         THEN ValueError("Amount must be greater than 0")
                         ELSE ValueError("Type must be 'income' or 'expense'")
          /\ transactions' = transactions]_vars

\* C8 witness: an add of a recognized kind with an amount <= 0 has failed on
\* a ledger that holds a transaction.
C8_Witness ==
    /\ last.op = "add_transaction"
    /\ Recognized(last.args[1])
    /\ NotGreaterThanZero(last.args[3])
    /\ last.exc = ValueError("Amount must be greater than 0")
    /\ Len(transactions) > 0

\* The kind a JSON record gives, under the key save_json writes or under the
\* name of the constructor's parameter.
JsonKind(item) ==
    IF S_transaction_type \in DOMAIN item THEN item[S_transaction_type] ELSE item[S_type]

\* A source holds an invalid record: an unrecognized kind, an amount <= 0 or,
\* in CSV, an amount text that does not convert to a number.
JsonHasInvalid(file) ==
    \E i \in 1..Len(file.data) :
        \/ ~Recognized(JsonKind(file.data[i]))
        \/ NotGreaterThanZero(file.data[i][S_amount])

CsvHasInvalid(file) ==
    LET rows == DictReader(UniversalNewlines(file.data)) IN
    \E i \in 1..Len(rows) :
        \/ S_type \in DOMAIN rows[i] /\ ~Recognized(rows[i][S_type])
        \/ /\ S_amount \in DOMAIN rows[i]
           /\ \/ float_(rows[i][S_amount]).exc # NoExc
              \/ NotGreaterThanZero(float_(rows[i][S_amount]).val)

\* C9: a load of an existing source with an invalid record raises, and the
\* ledger is exactly what it was before the call.
C9_FailedLoadKeepsLedger ==
    [][\/ last'.op = "load_json" /\ last'.file.exists /\ JsonHasInvalid(last'.file)
       \/ last'.op = "load_csv" /\ last'.file.exists /\ CsvHasInvalid(last'.file)
       => last'.exc # NoExc /\ transactions' = transactions]_vars

\* C9 witness: load_csv has raised on a source whose first record is valid
\* and whose second is not, and the ledger still holds a transaction.
C9_Witness ==
    /\ last.op = "load_csv"
    /\ last.exc # NoExc
    /\ last.file.exists
    /\ LET rows == DictReader(UniversalNewlines(last.file.data)) IN
           /\ Len(rows) = 2
           /\ TransactionOfRow(rows[1]).exc = NoExc
           /\ TransactionOfRow(rows[2]).exc # NoExc
    /\ Len(transactions) > 0

(***************************************************************************)
(* Properties of SpecQuery                                                 *)
(***************************************************************************)
\* The sum of the amounts at the positions in S, as an integer.
RECURSIVE SumAt(_, _)
SumAt(self, S) ==
    IF S = {} THEN 0
    ELSE LET i == CHOOSE i \in S : TRUE IN self[i].amount.n + SumAt(self, S \ {i})

PositionsOfType(self, ty) ==
    {i \in 1..Len(self) : self[i].transaction_type = PyStr(ty)}

IntegerAmounts(self) == \A i \in 1..Len(self) : self[i].amount.t = "int"

\* C6: over integer amounts, calculate_balance returns the sum of the
\* amounts of the income entries minus the sum of the amounts of the expense
\* entries, 0 on the empty ledger, and the same value on every permutation
\* of the ledger.
C6_Balance ==
    last.op = "calculate_balance" /\ IntegerAmounts(transactions) =>
        /\ last.value = PyInt(SumAt(transactions, PositionsOfType(transactions, S_income))
                              - SumAt(transactions, PositionsOfType(transactions, S_expense)))
        /\ transactions = <<>> => last.value = PyInt(0)
        /\ \A p \in Permutations(1..Len(transactions)) :
               calculate_balance([i \in 1..Len(transactions) |-> transactions[p[i]]])
                   = last.value

\* C6 witness: the balance of a ledger of an income entry and an expense
\* entry of different amounts has been computed.
C6_Witness ==
    /\ last.op = "calculate_balance"
    /\ IntegerAmounts(transactions)
    /\ Len(transactions) = 2
    /\ PositionsOfType(transactions, S_income) # {}
    /\ PositionsOfType(transactions, S_expense) # {}
    /\ transactions[1].amount # transactions[2].amount

\* The positions of the expense entries of category c.
ExpensesOf(self, c) ==
    {i \in PositionsOfType(self, S_expense) : self[i].category = PyStr(c)}

\* C7: the keys of summary_by_category are exactly the category texts of the
\* expense entries, each value is the sum of the amounts of the expense
\* entries of that category, and a ledger with no expense entry gives the
\* empty mapping.
C7_Summary ==
    last.op = "summary_by_category" =>
        /\ DOMAIN last.value
               = {transactions[i].category.s : i \in PositionsOfType(transactions, S_expense)}
        /\ \A c \in DOMAIN last.value :
               last.value[c] =
                   IF \E i \in ExpensesOf(transactions, c) : transactions[i].amount.t = "nan"
                   THEN PyNaN
                   ELSE PyInt(SumAt(transactions, ExpensesOf(transactions, c)))
        /\ PositionsOfType(transactions, S_expense) = {} => last.value = EmptyDict

\* C7 witness: the summary of a ledger of an income entry and an expense
\* entry of one category has been computed, and has one key.
C7_Witness ==
    /\ last.op = "summary_by_category"
    /\ Len(transactions) = 2
    /\ PositionsOfType(transactions, S_income) # {}
    /\ PositionsOfType(transactions, S_expense) # {}
    /\ transactions[1].category = transactions[2].category
    /\ Cardinality(DOMAIN last.value) = 1

(***************************************************************************)
(* Properties of SpecJson, SpecCsv and SpecPair                            *)
(***************************************************************************)
\* A sequence of valid transactions.
ValidLedger(self) ==
    \A i \in 1..Len(self) :
        Recognized(self[i].transaction_type) /\ GreaterThanZero(self[i].amount)

\* Same count, same order, and the same kind, category and amount (as a
\* number) in each position.
SameSequence(a, b) ==
    /\ Len(a) = Len(b)
    /\ \A i \in 1..Len(a) :
           /\ PyEq(a[i].transaction_type, b[i].transaction_type)
           /\ PyEq(a[i].category, b[i].category)
           /\ PyEq(a[i].amount, b[i].amount)

\* C1: load_json right after save_json on the same path returns normally
\* and leaves a ledger equal to the one before the save, for every sequence
\* of valid transactions.
C1_JsonRoundTrip ==
    [][last.op = "save_json" /\ last'.op = "load_json" /\ ValidLedger(transactions) =>
          last'.exc = NoExc /\ SameSequence(transactions', transactions)]_vars

\* C2: load_csv right after save_csv on the same path returns normally and
\* leaves a ledger equal to the one before the save, for every sequence of
\* valid transactions.
C2_CsvRoundTrip ==
    [][last.op = "save_csv" /\ last'.op = "load_csv" /\ ValidLedger(transactions) =>
          last'.exc = NoExc /\ SameSequence(transactions', transactions)]_vars

\* The ledgers correspond under the renaming.
Corresponds(en, es) ==
    /\ Len(en) = Len(es)
    /\ \A i \in 1..Len(en) :
           /\ es[i].tipo = PyStr(RenameKind(en[i].transaction_type.s))
           /\ es[i].categoria = en[i].category
           /\ es[i].monto = en[i].amount

\* C10: after the same calls the two variants have the same outcome, success
\* or failure, and corresponding ledgers.
C10_SameMachine ==
    /\ (last.exc = NoExc) <=> (ultimo.exc = NoExc)
    /\ Corresponds(transactions, movimientos)

====
